---- MODULE Spec2Model ----
(***************************************************************************)
(* The online fusion loop of the SOC estimator: the scalar Unscented       *)
(* Kalman Filter (UnscentedKalmanFilter in backend/soc_estimation.py and   *)
(* backend/influx_gru_revin_ukf_soc.py, identical in both files), the      *)
(* sliding feature window, and the two loops that drive them:              *)
(*   "batched"    SOCEstimator.estimate_soc   (soc_estimation.py)          *)
(*   "sequential" run_ukf_inference           (influx_gru_revin_ukf_soc.py)*)
(* and, around them, the estimator singleton serving several sessions and  *)
(* two requests at once (Spec, ConcurrentSpec), the pseudo-SOC column of   *)
(* run_ukf_inference (CoulombSpec) and the cache of InfluxDBLoader         *)
(* (CacheSpec).                                                            *)
(*                                                                         *)
(* Numbers.  The code computes in float64; TLC has 32-bit integers.  Real  *)
(* quantities are kept in fixed point:                                     *)
(*   SOC, voltages:                      multiples of 1/One                *)
(*   sigma points:                       multiples of 1/(One*Fine)         *)
(*   covariances (P, Q, R, Pzz, Pxz):    multiples of 1/PScale, where      *)
(*       PScale = (One*alpha)^2, so that the Cholesky factor               *)
(*       sqrt((n+lambda)*P) = alpha*sqrt(P) of a covariance of p units is  *)
(*       sqrt(p) SOC units.  A covariance below zero is counted in steps   *)
(*       of 1e-8 (Eps), the size of the regularisation: -1 stands for a    *)
(*       value in (-1e-8, 0), -2 for any value at or below -1e-8.                *)
(* The filter is built with dim_x = 1, alpha = 1e-3, beta = 2, kappa = 0   *)
(* (the defaults: both loops pass only q_proc and r_meas), so              *)
(*   lambda  = alpha^2 - 1           n + lambda = alpha^2                  *)
(*   Wm[0]   = 1 - 1/alpha^2 = -999999                                     *)
(*   Wm[1,2] = 1/(2 alpha^2) =  500000                                     *)
(*   Wc[0]   = Wm[0] + 1 - alpha^2 + beta                                  *)
(* A sum  Wm[0]*y0 + Wm[1]*y1 + Wm[2]*y2  has terms of size 1e6*y that do  *)
(* not fit 32 bits although the sum does; the sums are therefore written   *)
(* regrouped around y0 (the regrouping is exact over the reals and is      *)
(* spelled out at WeightedMean and WeightedCov).                           *)
(***************************************************************************)
EXTENDS Integers, Sequences, FiniteSets, TLC

\* ------------------------------------------------------------------ bounds
MaxN == 4          \* longest input table (samples)
MaxL == 4          \* largest seq_len tried
MaxB == 2          \* largest batch_size tried

\* ------------------------------------------------------- program constants
AlphaInv == 1000            \* 1/alpha, alpha = 1e-3
Beta == 2                   \* beta = 2.0
Kappa == 0                  \* kappa = 0.0
DimX == 1                   \* dim_x = 1
CapacityAh == 72            \* SOCConfig.capacity_ah = 72.0
CoulombEffPermille == 995   \* SOCConfig.coulomb_eff = 0.995
SecondsPerHour == 3600      \* the 3600 of delta_soc

\* fixed-point resolution (not program values)
One == 100 * 1000                                   \* SOC 1.0
PScale == (One \div AlphaInv) * (One \div AlphaInv) \* covariance 1.0
P0 == PScale \div 10                                \* np.eye(dim_x) * 0.1

\* ------------------------------------------------------------ input sets
Currents == {-100, 0, 100}          \* pack current of a sample, A
Dts == {1, 5}                       \* sample period, s
Voltages == {350 * One, 350 * One + 100}   \* measured pack voltage
ModelOutputs == {350 * One, 350 * One + 100}  \* observation-model output
LabelPcts == {50, 100, 120}         \* first SOC label, percent
QChoices == {0, 1}                  \* q_proc, covariance units
RChoices == {0, 10}                 \* r_meas = 0 and 1e-3, covariance units

\* -------------------------------------------------------------- arithmetic
Abs(a) == IF a < 0 THEN -a ELSE a
Sign(a) == IF a < 0 THEN -1 ELSE 1

\* floor(sqrt(n)) for 0 <= n < 2^31
RECURSIVE SqrtSearch(_, _, _)
SqrtSearch(n, lo, hi) ==
    IF lo = hi THEN lo
    ELSE LET mid == (lo + hi + 1) \div 2
         IN  IF mid * mid <= n THEN SqrtSearch(n, mid, hi)
                               ELSE SqrtSearch(n, lo, mid - 1)
ISqrt(n) == SqrtSearch(n, 0, 46340)

CeilDiv(a, c) == (a + c - 1) \div c

\* ------------------------------------------------------------------- UKF
\* __init__: the sigma-point weights.  Wm0 + 2*Wmi = 1.
Wmi == (AlphaInv * AlphaInv) \div (2 * (DimX + Kappa))
Wm0 == 1 - 2 * Wmi

\* np.clip(v, 0.0, 1.0)
Clip(v) == IF v < 0 THEN 0 ELSE IF v > One THEN One ELSE v

\* Sigma points are carried in SOC units / Fine (1e-7), so that the factor
\* of the regularised covariance, sqrt((n+lambda)*1e-8) = 1e-7, is one step.
Fine == One \div 1000
\* np.clip(v, 0.0, 1.0) on that scale
ClipFine(v) == IF v < 0 THEN 0 ELSE IF v > Fine * One THEN Fine * One ELSE v

\* The covariance scale.  P >= 0 counts units of 1/PScale (1e-4), a positive
\* value below one unit counting as one unit, so that P = 0 is an exactly
\* zero covariance.  The code produces negative covariances only at the
\* size of the regularisation term 1e-8 (see update); they are counted in
\* steps of 1e-8:  -1 is a value in (-1e-8, 0),  -2 a value in
\* (-2e-8, -1e-8], and so on.
Eps == 1                      \* the 1e-8 of P_stable, in those steps
EpsPerUnit == PScale          \* 1e-4 / 1e-8: steps of 1e-8 per covariance unit

\* np.linalg.cholesky((dim_x + lambda_) * P) of a 1x1 matrix: raises
\* LinAlgError unless the entry is > 0.
CholeskyRaises(P) == P <= 0
\* The except branch: P_stable = P + 1e-8 and a second, unguarded cholesky.
\* P + 1e-8 > 0 exactly when P is zero or a negative value above -1e-8.
RetryRaises(P) == P + Eps < 0
\* sqrt((n+lambda)*P) in fine SOC units: sqrt(P * Fine^2).  Above 2*One
\* units the product leaves 32 bits and the factor is taken as
\* Fine*sqrt(P).
CholeskyFactor(P) ==
    IF P <= 2 * One THEN ISqrt(P * Fine * Fine) ELSE Fine * ISqrt(P)
\* sqrt((n+lambda)*(P + 1e-8)) for -1e-8 < P <= 0: one fine step.
RetryFactor(P) == ISqrt(Eps)

\* one np.linalg.cholesky call: how many times 1e-8*I had been added to P,
\* and whether the call returned ("ok") or raised LinAlgError ("raise")
Attempt(reg, out) == [reg |-> reg, out |-> out]

\* a sigma-point routine that regularises a second time before giving up
SigmaPointsRetryAgain(x, P) ==
    IF ~CholeskyRaises(P)
    THEN LET L == CholeskyFactor(P)
         IN  [ok |-> TRUE, pts |-> <<Fine * x, Fine * x + L, Fine * x - L>>,
              L |-> L, cov |-> P, attempts |-> <<Attempt(0, "ok")>>]
    ELSE IF ~RetryRaises(P)
    THEN LET L == RetryFactor(P)
         IN  [ok |-> TRUE, pts |-> <<Fine * x, Fine * x + L, Fine * x - L>>,
              L |-> L, cov |-> 1,
              attempts |-> <<Attempt(0, "raise"), Attempt(1, "ok")>>]
    ELSE IF ~RetryRaises(P + Eps)
    THEN LET L == RetryFactor(P + Eps)
         IN  [ok |-> TRUE, pts |-> <<Fine * x, Fine * x + L, Fine * x - L>>,
              L |-> L, cov |-> 1,
              attempts |-> <<Attempt(0, "raise"), Attempt(1, "raise"),
                             Attempt(2, "ok")>>]
    ELSE [ok |-> FALSE, pts |-> <<>>, L |-> 0, cov |-> P,
          attempts |-> <<Attempt(0, "raise"), Attempt(1, "raise"),
                         Attempt(2, "raise")>>]

\* a sigma-point routine with a sign error in the second point of the pair
SigmaPointsOneSided(x, P) ==
    IF ~CholeskyRaises(P)
    THEN LET L == CholeskyFactor(P)
         IN  [ok |-> TRUE, pts |-> <<Fine * x, Fine * x + L, Fine * x + L>>,
              L |-> L, cov |-> P, attempts |-> <<Attempt(0, "ok")>>]
    ELSE IF ~RetryRaises(P)
    THEN LET L == RetryFactor(P)
         IN  [ok |-> TRUE, pts |-> <<Fine * x, Fine * x + L, Fine * x + L>>,
              L |-> L, cov |-> 1,
              attempts |-> <<Attempt(0, "raise"), Attempt(1, "ok")>>]
    ELSE [ok |-> FALSE, pts |-> <<>>, L |-> 0, cov |-> P,
          attempts |-> <<Attempt(0, "raise"), Attempt(1, "raise")>>]

\* _compute_sigma_points: <<x, x + L, x - L>> in fine units.  attempts
\* lists the np.linalg.cholesky calls made; cov is the covariance that was
\* factorised (P, or P_stable, which counts as one unit).
\* ok = FALSE: the second cholesky raised and no sigma points are returned.
compute_sigma_points(x, P) ==
    IF ~CholeskyRaises(P)
    THEN LET L == CholeskyFactor(P)
         IN  [ok |-> TRUE, pts |-> <<Fine * x, Fine * x + L, Fine * x - L>>,
              L |-> L, cov |-> P, attempts |-> <<Attempt(0, "ok")>>]
    ELSE IF ~RetryRaises(P)
    THEN LET L == RetryFactor(P)
         IN  [ok |-> TRUE, pts |-> <<Fine * x, Fine * x + L, Fine * x - L>>,
              L |-> L, cov |-> 1,
              attempts |-> <<Attempt(0, "raise"), Attempt(1, "ok")>>]
    ELSE [ok |-> FALSE, pts |-> <<>>, L |-> 0, cov |-> P,
          attempts |-> <<Attempt(0, "raise"), Attempt(1, "raise")>>]

\* sum_i Wm[i]*y[i]
\*   = y0 + Wmi*((y1 - y0) + (y2 - y0))        because Wm0 = 1 - 2*Wmi
\* for y in fine units, the result in SOC units.  y0 is a clamped
\* Fine*(x - delta_soc), a multiple of Fine.
WeightedMean(y) ==
    y[1] \div Fine + (Wmi \div Fine) * ((y[2] - y[1]) + (y[3] - y[1]))

\* sum_i Wc[i]*(y[i] - m)^2 with m = WeightedMean(y), in covariance units.
\* With e1 = y1 - y0, e2 = y2 - y0, E = e1 + e2, D = Wmi*E = m - y0:
\*   Wc0*D^2 + Wmi*(e1 - D)^2 + Wmi*(e2 - D)^2
\*     = (Wc0 + 2 Wmi - 2) D^2 + Wmi (e1^2 + e2^2)
\*     = (beta - alpha^2) D^2 + Wmi (e1^2 + e2^2)
\* and, divided by alpha^-2 (SOC units squared -> covariance units),
\*     = beta*((E/(2 alpha)))^2 + (e1 - e2)^2 / 4.
\* For untouched sigma points (e1 = L, e2 = -L) the sum is L^2/alpha^2, the
\* factorised covariance exactly, whatever the rounding of L: cov is
\* passed for it.
WeightedCov(y, L, cov) ==
    LET e1 == y[2] - y[1]
        e2 == y[3] - y[1]
        h  == (AlphaInv \div (2 * Fine)) * (e1 + e2)
    IN  IF e1 = L /\ e2 = -L THEN cov
        ELSE Beta * h * h + ((e1 - e2) * (e1 - e2)) \div (4 * Fine * Fine)

\* delta_soc = (coulomb_eff * current_A * dt) / (capacity_ah * 3600)
DeltaSoc(cur, dt) ==
    Sign(cur) * ((CoulombEffPermille * Abs(cur) * dt * (One \div 1000))
                 \div (CapacityAh * SecondsPerHour))

\* soc - delta_soc, clipped: one coulomb-counting step in SOC units
ProcessModel(soc, cur, dt) == Clip(soc - DeltaSoc(cur, dt))
\* the same step applied to one sigma point (fine units)
Propagated(pt, cur, dt) == ClipFine(pt - Fine * DeltaSoc(cur, dt))

\* predict(u, dt, capacity_ah, coulomb_eff) -> (x_pred, P_pred); ok is FALSE
\* when _compute_sigma_points raised.
\* what one _compute_sigma_points call was given and what it returned
Sigma(x, P, sp) == [x |-> x, P |-> P, ok |-> sp.ok, pts |-> sp.pts, L |-> sp.L]

predict(x, P, Q, cur, dt) ==
    LET sp == compute_sigma_points(x, P)
        y  == [k \in 1..3 |-> Propagated(sp.pts[k], cur, dt)]
    IN  IF sp.ok
        THEN [ok |-> TRUE, attempts |-> sp.attempts, sigma |-> Sigma(x, P, sp),
              x  |-> WeightedMean(y),
              P  |-> Q + WeightedCov(y, sp.L, sp.cov)]
        ELSE [ok |-> FALSE, attempts |-> sp.attempts, sigma |-> Sigma(x, P, sp),
              x |-> x, P |-> P]

\* K @ residual with K = Pxz / Pzz, rounded toward zero.  Pxz * r does not
\* fit 32 bits; Pxz*r/Pzz = r - (Pzz - Pxz)*r/Pzz does, Pzz - Pxz being R.
GainTimes(Pxz, Pzz, r) ==
    Sign(r) * (Abs(r) - CeilDiv((Pzz - Pxz) * Abs(r), Pzz))

\* K @ Pzz @ K.T = Pxz^2 / Pzz, rounded down: with d = Pzz - Pxz,
\* (Pzz - d)^2 / Pzz = Pxz - d + d^2 / Pzz.
GainSquare(Pxz, Pzz) ==
    Pxz - (Pzz - Pxz) + ((Pzz - Pxz) * (Pzz - Pxz)) \div Pzz

\* The update on sigma points of the regularised covariance (the except
\* branch was taken, -1e-8 < P_pred <= 0), in steps of 1e-8:
\*   Pxz = P_stable (Eps),  Pzz = R + Eps,  K = Eps / (R + Eps)
\*   x_updated = x_pred + K*residual
\*   P_updated = P_pred - K*Pzz*K = P_pred - Eps^2/(R + Eps)
\* P_pred is not regularised, so P_updated is negative: a value in
\* (-1e-8, 0) when R > 0, and -1e-8 when R = 0.
RegularisedGainTimes(R, r) ==
    Sign(r) * ((Abs(r) * Eps) \div (R * EpsPerUnit + Eps))
RegularisedCov(R) == -((Eps * Eps) \div (R * EpsPerUnit + Eps)) - 1

\* update(z, z_pred) -> (x_updated, P_updated).  z_sigma = sigma_points, so
\* z_pred_mean = WeightedMean(pts), and Pzz = R + cov, Pxz = cov of the
\* same points.  Pzz > 0 whenever sigma points were returned.
\* P_updated = (P_updated + P_updated.T) / 2 is the identity on a 1x1 matrix.
\* np.linalg.inv(Pzz) of a 1x1 matrix raises LinAlgError ("Singular
\* matrix") exactly when Pzz is zero.
Singular(Pzz) == Pzz = 0
\* A covariance at or below -1e-8 is kept as -2: every such value fails
\* both factorisations of the next sigma-point computation.
Negative(p) == IF p < 0 THEN -2 ELSE p

\* an update that answers a singular Pzz by returning its inputs
UpdateSkipsSingular(x, P, R, z, z_pred) ==
    LET sp  == compute_sigma_points(x, P)
        Pxz == WeightedCov(sp.pts, sp.L, sp.cov)
        Pzz == R + Pxz
    IN  IF ~sp.ok
        THEN [ok |-> FALSE, attempts |-> sp.attempts, sigma |-> Sigma(x, P, sp),
              x |-> x, P |-> P]
        ELSE IF Len(sp.attempts) > 1
        THEN [ok |-> TRUE, attempts |-> sp.attempts, sigma |-> Sigma(x, P, sp),
              x  |-> Clip(x + RegularisedGainTimes(R, z - z_pred)),
              P  |-> RegularisedCov(R)]
        ELSE IF Singular(Pzz)
        THEN [ok |-> TRUE, attempts |-> sp.attempts, sigma |-> Sigma(x, P, sp),
              x |-> x, P |-> P]
        ELSE [ok |-> TRUE, attempts |-> sp.attempts, sigma |-> Sigma(x, P, sp),
              x  |-> Clip(x + GainTimes(Pxz, Pzz, z - z_pred)),
              P  |-> Negative(P - GainSquare(Pxz, Pzz))]

update(x, P, R, z, z_pred) ==
    LET sp  == compute_sigma_points(x, P)
        Pxz == WeightedCov(sp.pts, sp.L, sp.cov)
        Pzz == R + Pxz
    IN  IF ~sp.ok
        THEN [ok |-> FALSE, attempts |-> sp.attempts, sigma |-> Sigma(x, P, sp),
              x |-> x, P |-> P]
        ELSE IF Len(sp.attempts) > 1
        THEN [ok |-> TRUE, attempts |-> sp.attempts, sigma |-> Sigma(x, P, sp),
              x  |-> Clip(x + RegularisedGainTimes(R, z - z_pred)),
              P  |-> RegularisedCov(R)]
        ELSE IF Singular(Pzz)
        THEN [ok |-> FALSE, attempts |-> sp.attempts, sigma |-> Sigma(x, P, sp),
              x |-> x, P |-> P]
        ELSE [ok |-> TRUE, attempts |-> sp.attempts, sigma |-> Sigma(x, P, sp),
              x  |-> Clip(x + GainTimes(Pxz, Pzz, z - z_pred)),
              P  |-> Negative(P - GainSquare(Pxz, Pzz))]

\* ------------------------------------------------------------------ state
VARIABLES
    impl,                 \* "batched" (estimate_soc) or "sequential" (run_ukf_inference)
    N,                    \* len(data)
    seq_len,              \* config.seq_len
    batch_size,           \* config.batch_size (batched loop only)
    dt,                   \* sample period of the table
    Q, R,                 \* ukf.Q, ukf.R
    soc_label0,           \* <<>>: no usable first label; <<p>>: soc_label[0] = p percent
    use_pseudo_soc,       \* config.use_pseudo_soc (sequential loop only)
    x, P,                 \* ukf.x[0], ukf.P[0,0]
    pc,                   \* "start", "loop", "flush", "observe", "done", "failed"
    i,                    \* the loop variable i
    j,                    \* position in the batch being processed
    window_buffer,        \* list of feature vectors
    batch_buffer,         \* list of queued windows
    soc_scaled,           \* per sample: who wrote soc_scaled[k]
    soc_estimates, voltage_predictions, voltage_actual,
    calls,                \* the predict / update calls made, in order
    model_calls,          \* the observation-model invocations, in order
    error,                \* the exception that ended the session, or "none"
    chol,                 \* outcome of each np.linalg.cholesky call of the
                          \* latest _compute_sigma_points
    sigma,                \* arguments and result of that call
    session,              \* number of the session running on this estimator
    first,                \* what the first session read and returned
    other,                \* a second request served at the same time
    use_cache, cache_ttl, \* config.use_cache, config.cache_ttl (clock ticks)
    cache,                \* InfluxDBLoader._cache: key -> (table, time)
    now,                  \* time.time()
    heap,                 \* the DataFrame objects, by reference
    loaded,               \* the latest load_data call and what it returned
    pseudo,               \* the pseudo-SOC column being built
    soc_column,           \* data["soc"], if the table has the column
    use_label_soc,        \* the use_label_soc argument of estimate_soc
    metrics,              \* the metrics dict of the result
    model_file,           \* what is at SOC_MODEL_PATH
    estimator,            \* the module global _estimator
    responses             \* the responses the service has sent, in order

vars == <<impl, N, seq_len, batch_size, dt, Q, R, soc_label0, use_pseudo_soc,
          x, P, pc, i, j, window_buffer, batch_buffer, soc_scaled,
          soc_estimates, voltage_predictions, voltage_actual,
          calls, model_calls, error, chol, sigma, session, first, other,
          use_cache, cache_ttl, cache, now, heap, loaded, pseudo,
          soc_column, use_label_soc, metrics, model_file, estimator,
          responses>>

\* the loader and the pseudo-SOC column: untouched by the fusion loop
loaderVars == <<use_cache, cache_ttl, cache, now, heap, loaded>>
\* the metrics of a result, and the web service around the estimator
report == <<soc_column, use_label_soc, metrics>>
api == <<model_file, estimator, responses>>
aux == <<report, api>>
notFusion == <<loaderVars, pseudo, aux>>
sessions == <<session, first, other>>

config == <<impl, N, seq_len, batch_size, dt, Q, R, soc_label0, use_pseudo_soc>>
outputs == <<soc_estimates, voltage_predictions, voltage_actual>>

\* InfluxDBLoader.__init__: an empty cache; nothing loaded yet.
LoaderIdle ==
    /\ use_cache = TRUE
    /\ cache_ttl = 1
    /\ cache = <<>>
    /\ now = 0
    /\ heap = <<>>
    /\ loaded = [n |-> 0, kind |-> "none"]

\* no result assembled yet
ReportIdle ==
    /\ soc_column = <<>>
    /\ use_label_soc = FALSE
    /\ metrics = <<>>

\* the service as imported: _estimator = None, nothing answered yet
ApiIdle ==
    /\ model_file = "loads"
    /\ estimator = "None"
    /\ responses = <<>>

\* The estimator as constructed (UnscentedKalmanFilter.__init__: x = 0,
\* P = 0.1) and the inputs of one session.
EstimatorInit ==
    /\ impl \in {"batched", "sequential"}
    /\ N \in 1..MaxN
    /\ seq_len \in 1..MaxL
    /\ batch_size \in (IF impl = "batched" THEN 1..MaxB ELSE {1})
    /\ dt \in (IF N > 1 THEN Dts ELSE {1})
    /\ soc_label0 \in (IF impl = "batched"
                       THEN {<<>>} \cup {<<p>> : p \in LabelPcts}
                       ELSE {<<>>})
    /\ use_pseudo_soc \in (IF impl = "sequential" THEN BOOLEAN ELSE {FALSE})
    /\ x = 0
    /\ P = P0
    /\ pc = "start"
    /\ i = 0
    /\ j = 0
    /\ window_buffer = <<>>
    /\ batch_buffer = <<>>
    /\ soc_scaled = <<>>
    /\ soc_estimates = <<>>
    /\ voltage_predictions = <<>>
    /\ voltage_actual = <<>>
    /\ calls = <<>>
    /\ model_calls = <<>>
    /\ error = "none"
    /\ chol = <<>>
    /\ sigma = <<>>
    /\ session = 1
    /\ first = <<>>
    /\ LoaderIdle
    /\ pseudo = <<>>
    /\ ReportIdle
    /\ ApiIdle

\* q_proc >= 0 and r_meas >= 0, as a sound configuration has them
SessionInit ==
    /\ EstimatorInit
    /\ Q \in QChoices
    /\ R \in RChoices

\* one request at a time
Init ==
    /\ SessionInit
    /\ other = "absent"

\* soc[0]: soc_label[0] / 100.0 when a first label is usable, else 1.0
\* (estimate_soc); always 1.0 in run_ukf_inference.
InitialSoc(label0) ==
    IF label0 = <<>> THEN One ELSE (label0[1] * One) \div 100

\* The session set-up up to the loop: the SOC seed, the scaled SOC column,
\* the output lists.  run_ukf_inference with use_pseudo_soc reads
\* data.index[1] unguarded, which raises IndexError on a one-row table.
Setup ==
    /\ pc = "start"
    /\ IF impl = "sequential" /\ use_pseudo_soc /\ N = 1
       THEN /\ pc' = "failed"
            /\ error' = "IndexError"
            /\ UNCHANGED <<x, i, soc_scaled, soc_estimates>>
       ELSE /\ x' = InitialSoc(soc_label0)
            /\ soc_estimates' = <<InitialSoc(soc_label0)>>
            /\ soc_scaled' = [k \in 1..N |-> "init"]
            /\ i' = 1
            /\ pc' = "loop"
            /\ UNCHANGED error
    /\ UNCHANGED <<config, sessions, notFusion, chol, sigma, P, j, window_buffer, batch_buffer,
                   voltage_predictions, voltage_actual, calls, model_calls>>

\* The columns of the table.  The first session on an estimator draws each
\* value when it first reads it; a later session is given the same table,
\* so it reads what the first session read (and draws what that one never
\* reached).
\* current[k]
CurrentChoices(k) ==
    LET read == IF first = <<>> THEN {}
                ELSE {first.calls[c].u : c \in {c \in 1..Len(first.calls) :
                          first.calls[c].op = "predict" /\ first.calls[c].idx = k}}
    IN  IF read = {} THEN Currents ELSE read
\* voltage[k]
VoltageChoices(k) ==
    IF first = <<>> \/ k > Len(first.voltage_actual) THEN Voltages
    ELSE {first.voltage_actual[k]}
\* the observation model's output for the window of sample k
ModelChoices(k) ==
    IF first = <<>> \/ k > Len(first.voltage_predictions) THEN ModelOutputs
    ELSE {first.voltage_predictions[k]}

\* A feature builder that reads the SOC the filter has just estimated for
\* the previous sample instead of the stored soc_scaled value.
FeaturesFromFilter(k) ==
    [idx |-> k, soc_idx |-> k - 1,
     soc_src |-> IF k - 1 >= seq_len THEN "est" ELSE soc_scaled[k]]

\* features = [current_scaled[i], temp_scaled[i], soc_scaled[i-1]]: the
\* scaled current and temperature of sample i, and the scaled SOC of sample
\* i-1 as it stands when the feature is built.  (soc_scaled is indexed from
\* 1 here: soc_scaled[k+1] is the code's soc_scaled[k].)
Features(k) == [idx |-> k, soc_idx |-> k - 1, soc_src |-> soc_scaled[k]]

\* a push that never evicts
PushedNoEviction(buf, f) == Append(buf, f)

\* window_buffer.append(features); ...; if len > seq_len: pop(0)
Pushed(buf, f) ==
    LET b == Append(buf, f)
    IN  IF Len(b) > seq_len THEN Tail(b) ELSE b

\* A warm-up step that emits the voltages but no SOC placeholder.
WarmupNoPlaceholder ==
    /\ pc = "loop"
    /\ i < N
    /\ Len(window_buffer) + 1 < seq_len
    /\ \E v \in VoltageChoices(i) :
        /\ window_buffer' = Append(window_buffer, Features(i))
        /\ voltage_predictions' = Append(voltage_predictions, v)
        /\ voltage_actual' = Append(voltage_actual, v)
    /\ i' = i + 1
    /\ UNCHANGED <<config, sessions, notFusion, chol, sigma, x, P, pc, j, batch_buffer, soc_scaled, soc_estimates,
                   calls, model_calls, error>>

\* A warm-up step whose placeholder is a full charge, not the previous SOC.
WarmupFullCharge ==
    /\ pc = "loop"
    /\ i < N
    /\ Len(window_buffer) + 1 < seq_len
    /\ \E v \in VoltageChoices(i) :
        /\ window_buffer' = Append(window_buffer, Features(i))
        /\ soc_estimates' = Append(soc_estimates, One)
        /\ voltage_predictions' = Append(voltage_predictions, v)
        /\ voltage_actual' = Append(voltage_actual, v)
    /\ i' = i + 1
    /\ UNCHANGED <<config, sessions, notFusion, chol, sigma, x, P, pc, j, batch_buffer, soc_scaled,
                   calls, model_calls, error>>

\* A warm-up step that already integrates the current into the filter mean.
WarmupCoulombCount ==
    /\ pc = "loop"
    /\ i < N
    /\ Len(window_buffer) + 1 < seq_len
    /\ \E v \in VoltageChoices(i), cur \in Currents :
        /\ window_buffer' = Append(window_buffer, Features(i))
        /\ x' = ProcessModel(x, cur, dt)
        /\ soc_estimates' = Append(soc_estimates, soc_estimates[Len(soc_estimates)])
        /\ voltage_predictions' = Append(voltage_predictions, v)
        /\ voltage_actual' = Append(voltage_actual, v)
    /\ i' = i + 1
    /\ UNCHANGED <<config, sessions, notFusion, chol, sigma, P, pc, j, batch_buffer, soc_scaled,
                   calls, model_calls, error>>

\* for i in range(1, len(data)), the warm-up branch: the buffer holds fewer
\* than seq_len vectors after the push.
WarmupStep ==
    /\ pc = "loop"
    /\ i < N
    /\ Len(window_buffer) + 1 < seq_len
    /\ \E v \in VoltageChoices(i) :
        /\ window_buffer' = Append(window_buffer, Features(i))
        /\ soc_estimates' = Append(soc_estimates, soc_estimates[Len(soc_estimates)])
        /\ voltage_predictions' = Append(voltage_predictions, v)
        /\ voltage_actual' = Append(voltage_actual, v)
    /\ i' = i + 1
    /\ UNCHANGED <<config, sessions, notFusion, chol, sigma, x, P, pc, j, batch_buffer, soc_scaled,
                   calls, model_calls, error>>

\* The end of the for loop and the return of the three arrays.
Finish ==
    /\ pc = "loop"
    /\ i >= N
    /\ pc' = "done"
    /\ UNCHANGED <<config, sessions, notFusion, chol, sigma, x, P, i, j, window_buffer, batch_buffer, soc_scaled,
                   outputs, calls, model_calls, error>>

\* An exception leaves the loop: nothing after the raising statement runs.
Raise(kind) ==
    /\ pc' = "failed"
    /\ error' = kind

\* ------------------------------------------- run_ukf_inference, one sample
\* The push, the eviction, "UKF Predict" and the two stores into ukf.
SeqPredict ==
    /\ pc = "loop"
    /\ impl = "sequential"
    /\ i < N
    /\ Len(window_buffer) + 1 >= seq_len
    /\ window_buffer' = Pushed(window_buffer, Features(i))
    /\ \E cur \in CurrentChoices(i) :
         LET r == predict(x, P, Q, cur, dt)
         IN  /\ chol' = r.attempts /\ sigma' = r.sigma
             /\ IF r.ok
                THEN /\ x' = r.x
                     /\ P' = r.P
                     /\ calls' = Append(calls, [op |-> "predict", idx |-> i,
                                                u |-> cur])
                     /\ pc' = "observe"
                     /\ UNCHANGED error
                ELSE /\ Raise("LinAlgError")
                     /\ UNCHANGED <<x, P, calls>>
    /\ UNCHANGED <<config, sessions, notFusion, i, j, batch_buffer, soc_scaled, outputs, model_calls>>

\* The model call on the window, the two voltage appends, "UKF Update", the
\* two stores, the SOC append and the write-back soc_scaled[i].
SeqObserve ==
    /\ pc = "observe"
    /\ impl = "sequential"
    /\ \E v_pred \in ModelChoices(i), v \in VoltageChoices(i) :
         LET u == update(x, P, R, v, v_pred)
         IN  /\ chol' = u.attempts /\ sigma' = u.sigma
             /\ model_calls' = Append(model_calls,
                                      [at |-> i, windows |-> <<window_buffer>>])
             /\ voltage_predictions' = Append(voltage_predictions, v_pred)
             /\ voltage_actual' = Append(voltage_actual, v)
             /\ IF u.ok
                THEN /\ x' = u.x
                     /\ P' = u.P
                     /\ calls' = Append(calls, [op |-> "update", idx |-> i,
                                                z |-> v, z_pred |-> v_pred])
                     /\ soc_estimates' = Append(soc_estimates, u.x)
                     /\ soc_scaled' = [soc_scaled EXCEPT ![i + 1] = "est"]
                     /\ i' = i + 1
                     /\ pc' = "loop"
                     /\ UNCHANGED error
                ELSE /\ Raise("LinAlgError")
                     /\ UNCHANGED <<x, P, calls, soc_estimates, soc_scaled, i>>
    /\ UNCHANGED <<config, sessions, notFusion, j, window_buffer, batch_buffer>>

\* ------------------------------------------------ estimate_soc, one sample
\* The push, the eviction, batch_buffer.append and the flush test; when the
\* test holds, the one model call on the whole batch.
BatchEnqueue ==
    /\ pc = "loop"
    /\ impl = "batched"
    /\ i < N
    /\ Len(window_buffer) + 1 >= seq_len
    /\ window_buffer' = Pushed(window_buffer, Features(i))
    /\ batch_buffer' = Append(batch_buffer, window_buffer')
    /\ IF Len(batch_buffer') >= batch_size \/ i = N - 1
       THEN /\ model_calls' = Append(model_calls,
                                     [at |-> i, windows |-> batch_buffer'])
            /\ pc' = "flush"
            /\ j' = 0
            /\ UNCHANGED i
       ELSE /\ i' = i + 1
            /\ UNCHANGED <<model_calls, pc, j>>
    /\ UNCHANGED <<config, sessions, notFusion, chol, sigma, x, P, soc_scaled, outputs, calls, error>>

\* the index of the sample that closed the batch, whatever j
ActualIdxOfFlush == i

\* actual_idx = i - len(batch_buffer) + j + 1
ActualIdx == i - Len(batch_buffer) + j + 1

\* The head of the j-th pass of "for j, (pred, buf_idx) in enumerate(...)":
\* the skip test, "UKF Predict" and the two stores into ukf.
BatchPredict ==
    /\ pc = "flush"
    /\ impl = "batched"
    /\ j < Len(batch_buffer)
    /\ IF ActualIdx >= N
       THEN /\ j' = j + 1
            /\ UNCHANGED <<x, P, calls, pc, error, chol, sigma>>
       ELSE \E cur \in CurrentChoices(ActualIdx) :
              LET r == predict(x, P, Q, cur, dt)
              IN  /\ chol' = r.attempts /\ sigma' = r.sigma
                  /\ IF r.ok
                     THEN /\ x' = r.x
                          /\ P' = r.P
                          /\ calls' = Append(calls, [op |-> "predict",
                                                     idx |-> ActualIdx, u |-> cur])
                          /\ pc' = "observe"
                          /\ UNCHANGED <<j, error>>
                     ELSE /\ Raise("LinAlgError")
                          /\ UNCHANGED <<x, P, calls, j>>
    /\ UNCHANGED <<config, sessions, notFusion, i, window_buffer, batch_buffer, soc_scaled,
                   outputs, model_calls>>

\* "v_pred_scaled = pred[0, 0]".  batch_preds = self.model(batch_tensor)
\* .cpu().numpy() has shape (batch, 1): GRUVoltageModel.forward returns
\* self.fc(last_hidden), whose last layer is nn.Linear(hidden_size // 2, 1).
\* zip(batch_preds, ...) yields its rows, so pred has shape (1,), and an
\* index with more entries than the array has dimensions raises IndexError.
PredRowShape == <<1>>
PredIndex == <<0, 0>>
BatchObserve ==
    /\ pc = "observe"
    /\ impl = "batched"
    /\ Len(PredIndex) > Len(PredRowShape)
    /\ Raise("IndexError")
    /\ UNCHANGED <<config, sessions, notFusion, chol, sigma, x, P, i, j, window_buffer, batch_buffer, soc_scaled,
                   outputs, calls, model_calls>>

\* ------------------------------------------------- the estimator singleton
\* A further estimate_soc call on the same SOCEstimator (get_estimator hands
\* every request the one instance, whose ukf was built in __init__) with
\* the same table and flags.  The locals of the call start afresh; self.ukf
\* is the object the earlier call left behind.  The model follows a further
\* session only from a covariance its arithmetic can carry through predict.
MaxSessions == 2
MaxCov == 4 * P0
NewSession ==
    /\ pc \in {"done", "failed"}
    /\ impl = "batched"
    /\ session < MaxSessions
    /\ P <= MaxCov
    /\ session' = session + 1
    /\ first' = IF session = 1
                THEN [calls |-> calls, error |-> error, pc |-> pc,
                      soc_estimates |-> soc_estimates,
                      voltage_predictions |-> voltage_predictions,
                      voltage_actual |-> voltage_actual]
                ELSE first
    /\ pc' = "start"
    /\ i' = 0
    /\ j' = 0
    /\ window_buffer' = <<>>
    /\ batch_buffer' = <<>>
    /\ soc_scaled' = <<>>
    /\ soc_estimates' = <<>>
    /\ voltage_predictions' = <<>>
    /\ voltage_actual' = <<>>
    /\ calls' = <<>>
    /\ model_calls' = <<>>
    /\ error' = "none"
    /\ chol' = <<>>
    /\ sigma' = <<>>
    /\ UNCHANGED <<config, x, P, other, notFusion>>

Next ==
    \/ Setup
    \/ WarmupStep
    \/ SeqPredict
    \/ SeqObserve
    \/ BatchEnqueue
    \/ BatchPredict
    \/ BatchObserve
    \/ Finish
    \/ NewSession

Spec == Init /\ [][Next]_vars

\* ------------------------------------------- a misconfigured noise pair
\* run_ukf_inference with an r_meas that cancels the process noise
\* (r_meas = -q_proc; nothing validates the two): the innovation covariance
\* Pzz = R + Pxz is zero wherever the predicted covariance is Q alone.
SingularInit ==
    /\ EstimatorInit
    /\ impl = "sequential"
    /\ Q \in QChoices
    /\ R = -Q
    /\ other = "absent"

SingularNext ==
    \/ Setup
    \/ WarmupStep
    \/ SeqPredict
    \/ SeqObserve
    \/ Finish

SingularSpec == SingularInit /\ [][SingularNext]_vars

\* ------------------------------------------- the same table, run again
\* The table of a stopped session is given to estimate_soc of a newly
\* constructed SOCEstimator (x = 0, P = 0.1 again) with the same seq_len,
\* noise settings and labels: with batch_size 1 after run_ukf_inference,
\* with another batch_size after estimate_soc.  The observation model
\* answers for a sample as it did in the first run.
Rerun ==
    /\ pc \in {"done", "failed"}
    /\ session = 1
    /\ session' = 2
    /\ first' = [impl |-> impl, batch_size |-> batch_size,
                 calls |-> calls, error |-> error, pc |-> pc,
                 soc_estimates |-> soc_estimates,
                 voltage_predictions |-> voltage_predictions,
                 voltage_actual |-> voltage_actual]
    /\ impl' = "batched"
    /\ batch_size' \in (IF impl = "sequential" THEN {1}
                        ELSE (1..MaxB) \ {batch_size})
    /\ use_pseudo_soc' = FALSE
    /\ x' = 0
    /\ P' = P0
    /\ pc' = "start"
    /\ i' = 0
    /\ j' = 0
    /\ window_buffer' = <<>>
    /\ batch_buffer' = <<>>
    /\ soc_scaled' = <<>>
    /\ soc_estimates' = <<>>
    /\ voltage_predictions' = <<>>
    /\ voltage_actual' = <<>>
    /\ calls' = <<>>
    /\ model_calls' = <<>>
    /\ error' = "none"
    /\ chol' = <<>>
    /\ sigma' = <<>>
    /\ UNCHANGED <<N, seq_len, dt, Q, R, soc_label0, other, notFusion>>

TwinNext ==
    \/ Setup
    \/ WarmupStep
    \/ SeqPredict
    \/ SeqObserve
    \/ BatchEnqueue
    \/ BatchPredict
    \/ BatchObserve
    \/ Finish
    \/ Rerun

TwinSpec == Init /\ [][TwinNext]_vars

\* ------------------------------------------------ two requests at once
\* /soc/estimate hands estimator.estimate_soc to the default thread pool
\* (loop.run_in_executor(None, ...)) and awaits it, so the event loop takes
\* the next request meanwhile; get_estimator gives that request the same
\* SOCEstimator, and nothing locks self.ukf.  The second request's session
\* runs on another thread: of its steps only those that touch self.ukf are
\* followed (its seed, its predict and its end; its update is never reached
\* either).
ConcurrentInit ==
    /\ SessionInit
    /\ impl = "batched"
    /\ other = "start"

\* self.ukf.x[0] = soc[0] (or 1.0) in the other session
OtherSeed ==
    /\ other = "start"
    /\ \E label0 \in {<<>>} \cup {<<p>> : p \in LabelPcts} :
         x' = InitialSoc(label0)
    /\ other' = "seeded"
    /\ UNCHANGED <<config, session, first, notFusion, chol, sigma, P, pc, i, j,
                   window_buffer, batch_buffer, soc_scaled, outputs, calls,
                   model_calls, error>>

\* the other session's predict and its two stores into self.ukf; followed
\* while the covariance stays within what the arithmetic carries
OtherPredict ==
    /\ other = "seeded"
    /\ P <= MaxCov
    /\ \E cur \in Currents :
         LET r == predict(x, P, Q, cur, dt)
         IN  /\ r.P <= MaxCov
             /\ chol' = r.attempts /\ sigma' = r.sigma
             /\ x' = r.x
             /\ P' = r.P
             /\ other' = IF r.ok THEN "predicted" ELSE "stopped"
    /\ UNCHANGED <<config, session, first, notFusion, pc, i, j,
                   window_buffer, batch_buffer, soc_scaled, outputs, calls,
                   model_calls, error>>

\* the other session returns (warm-up only) or raises
OtherStop ==
    /\ other \in {"seeded", "predicted"}
    /\ other' = "stopped"
    /\ UNCHANGED <<config, session, first, notFusion, chol, sigma, x, P, pc, i, j,
                   window_buffer, batch_buffer, soc_scaled, outputs, calls,
                   model_calls, error>>

ConcurrentNext ==
    \/ Setup
    \/ WarmupStep
    \/ BatchEnqueue
    \/ BatchPredict
    \/ BatchObserve
    \/ Finish
    \/ OtherSeed
    \/ OtherPredict
    \/ OtherStop

ConcurrentSpec == ConcurrentInit /\ [][ConcurrentNext]_vars

\* ------------------------------------------------ the pseudo-SOC column
\* Everything the fusion loop and the estimator own.
fusion == <<config, x, P, pc, i, j, window_buffer, batch_buffer, soc_scaled,
            outputs, calls, model_calls, error, chol, sigma, sessions>>

\* A session that has not entered its set-up: run_ukf_inference called with
\* use_pseudo_soc on a fresh filter.
FusionIdle ==
    /\ impl = "sequential"
    /\ N = 1
    /\ seq_len = 1
    /\ batch_size = 1
    /\ dt = 1
    /\ Q = 0
    /\ R = 0
    /\ soc_label0 = <<>>
    /\ use_pseudo_soc = TRUE
    /\ x = 0
    /\ P = P0
    /\ pc = "start"
    /\ i = 0
    /\ j = 0
    /\ window_buffer = <<>>
    /\ batch_buffer = <<>>
    /\ soc_scaled = <<>>
    /\ soc_estimates = <<>>
    /\ voltage_predictions = <<>>
    /\ voltage_actual = <<>>
    /\ calls = <<>>
    /\ model_calls = <<>>
    /\ error = "none"
    /\ chol = <<>>
    /\ sigma = <<>>
    /\ session = 1
    /\ first = <<>>
    /\ other = "absent"

\* Charge is counted exactly: a SOC of 1.0 is ChargeUnits, one unit being
\* a thousandth of an ampere-second at efficiency 1.0.
ChargeUnits == CapacityAh * SecondsPerHour * 1000
ClipCharge(c) == IF c < 0 THEN 0 ELSE IF c > ChargeUnits THEN ChargeUnits ELSE c

\* a step that takes capacity_ah for ampere-minutes
CoulombStepPerMinute(soc, eff, cur, step) ==
    ClipCharge(soc - eff * cur * step * 60)

\* delta_soc = coulomb_eff * current * dt / (capacity_ah * 3600);
\* soc[i] = clip(soc[i-1] - delta_soc, 0, 1); eff in thousandths
CoulombStep(soc, eff, cur, step) == ClipCharge(soc - eff * cur * step)

\* The constant-current tables and efficiencies the column is built for.
MaxRows == 3600
PseudoCurrents == {-10, 0, 10, 100}
PseudoEffs == {CoulombEffPermille, 1000}

\* soc = np.zeros(len(data)); soc[0] = 1.0; dt from the first two rows
PseudoInit ==
    /\ FusionIdle
    /\ LoaderIdle
    /\ ReportIdle
    /\ ApiIdle
    /\ pseudo \in [i : {0}, soc : {ChargeUnits}, cur : PseudoCurrents,
                   eff : PseudoEffs, dt : Dts]

\* one pass of "for i in range(1, len(data))"
PseudoStep ==
    /\ pseudo.i < MaxRows
    /\ pseudo' = [pseudo EXCEPT
                     !.i = @ + 1,
                     !.soc = CoulombStep(@, pseudo.eff, pseudo.cur, pseudo.dt)]
    /\ UNCHANGED <<fusion, aux, loaderVars>>

PseudoNext == PseudoStep

CoulombSpec == PseudoInit /\ [][PseudoNext]_vars

\* ------------------------------------------------------- InfluxDBLoader
\* The arguments of load_data: device is Optional[str] (<<>> is None), the
\* others are strings the request supplies.
Requests ==
    { << <<>>,          "-7d",     "now()", "5s" >>,
      << <<"None">>,    "-7d",     "now()", "5s" >>,
      << <<"car">>,     "-1h_-7d", "now()", "5s" >>,
      << <<"car_-1h">>, "-7d",     "now()", "5s" >> }

\* "{device}" in an f-string: None is formatted as the text None
Format(device) == IF device = <<>> THEN "None" ELSE device[1]
\* cache_key = f"{device}_{start}_{stop}_{downsample}"
CacheKey(req) ==
    Format(req[1]) \o "_" \o req[2] \o "_" \o req[3] \o "_" \o req[4]

MaxLoads == 3                  \* load_data calls followed
MaxClock == 2                  \* clock ticks followed
TtlChoices == {1, 2}           \* cache_ttl, in clock ticks
\* query_data_frame: rows, nothing (ValueError), or an exception
Outcomes == {"rows", "empty", "error"}

\* a loader as constructed, with the config it was given
LoaderInit ==
    /\ FusionIdle
    /\ pseudo = <<>>
    /\ ReportIdle
    /\ ApiIdle
    /\ use_cache \in BOOLEAN
    /\ cache_ttl \in TtlChoices
    /\ cache = <<>>
    /\ now = 0
    /\ heap = <<>>
    /\ loaded = [n |-> 0, kind |-> "none"]

\* an age test that still accepts an entry of age cache_ttl
FreshInclusive(entry, t, ttl) == t - entry.time <= ttl
\* time.time() - cached_time < self.config.cache_ttl
Fresh(entry, t, ttl) == t - entry.time < ttl

\* handing out the object itself
Alias(h, ref) == [heap |-> h, ref |-> ref]
\* DataFrame.copy(): a new object with the same content, held by nobody yet
Copy(h, ref) ==
    [heap |-> Append(h, [h[ref] EXCEPT !.held = FALSE]), ref |-> Len(h) + 1]

\* a handler that runs the query a second time before giving up
ReraisedAfterRetry(outcome) ==
    [kind |-> IF outcome = "empty" THEN "ValueError" ELSE "Exception",
     ref |-> 0, clean |-> TRUE, queries |-> 2]
\* "raise ValueError(...)" on an empty result, or the exception of
\* query_data_frame; "except Exception as e: print(...); raise" passes
\* either on.  The one query_data_frame call has been made, no table is
\* returned (ref 0).
Reraised(outcome) ==
    [kind |-> IF outcome = "empty" THEN "ValueError" ELSE "Exception",
     ref |-> 0, clean |-> TRUE, queries |-> 1]

\* One load_data call.  A table object records the request whose query
\* produced its content, when, whether a caller holds it and whether a
\* caller has written to it.  The call records its locals: the key, the
\* entry it found, the time it read, the tables written to so far, the
\* table it returned, whether that table was as stored, and how many
\* times it ran the query.
LoadData ==
    /\ loaded.n < MaxLoads
    /\ \E req \in Requests, outcome \in Outcomes :
         LET key   == CacheKey(req)
             found == IF use_cache /\ key \in DOMAIN cache
                      THEN <<cache[key]>> ELSE <<>>
             hit   == found # <<>> /\ Fresh(found[1], now, cache_ttl)
             call  == [n |-> loaded.n + 1, request |-> req, key |-> key,
                       found |-> found, at |-> now,
                       written |-> {r \in 1..Len(heap) : heap[r].mutated}]
         IN  IF hit
             THEN LET c == Copy(heap, found[1].ref)
                  IN  /\ outcome = "rows"
                      /\ heap' = [c.heap EXCEPT ![c.ref].held = TRUE]
                      /\ loaded' = call @@ [kind |-> "hit", ref |-> c.ref,
                                            clean |-> ~c.heap[c.ref].mutated,
                                            queries |-> 0]
                      /\ UNCHANGED cache
             ELSE IF outcome = "rows"
             THEN LET result == Len(heap) + 1
                      h1 == Append(heap, [request |-> req, at |-> now,
                                          held |-> TRUE, mutated |-> FALSE])
                      c  == Copy(h1, result)
                  IN  /\ IF use_cache
                         THEN /\ heap' = c.heap
                              /\ cache' = [k \in DOMAIN cache \cup {key} |->
                                             IF k = key
                                             THEN [ref |-> c.ref, time |-> now]
                                             ELSE cache[k]]
                         ELSE /\ heap' = h1
                              /\ UNCHANGED cache
                      /\ loaded' = call @@ [kind |-> "miss", ref |-> result,
                                            clean |-> TRUE, queries |-> 1]
             ELSE /\ loaded' = call @@ Reraised(outcome)
                  /\ UNCHANGED <<heap, cache>>
    /\ UNCHANGED <<fusion, aux, pseudo, use_cache, cache_ttl, now>>

\* time passes between calls
Tick ==
    /\ now < MaxClock
    /\ now' = now + 1
    /\ UNCHANGED <<fusion, aux, pseudo, use_cache, cache_ttl, cache, heap, loaded>>

\* a caller writes into a table load_data returned to it
Mutate ==
    /\ \E r \in 1..Len(heap) :
         /\ heap[r].held
         /\ ~heap[r].mutated
         /\ heap' = [heap EXCEPT ![r].mutated = TRUE]
    /\ UNCHANGED <<fusion, aux, pseudo, use_cache, cache_ttl, cache, now, loaded>>

LoaderNext ==
    \/ LoadData
    \/ Tick
    \/ Mutate

CacheSpec == LoaderInit /\ [][LoaderNext]_vars

\* ------------------------------------------------- the metrics of a result
\* A label is <<>> (NaN) or <<p>> (p percent); the column is <<>> when the
\* table has no "soc" column and <<labels>> otherwise.
MaxLabels == 4                 \* longest label column tried
LabelChoices == {<<>>, <<50>>, <<60>>}
Columns ==
    UNION {[1..n -> LabelChoices] : n \in 1..MaxLabels}

\* soc_label = data["soc"].values if "soc" in data.columns and use_label_soc
\*             else None
SocLabel(column, use) == IF column # <<>> /\ use THEN column ELSE <<>>

\* ~np.isnan(soc_label): the positions that hold a label
NotNan(label) == {k \in 1..Len(label) : label[k] # <<>>}

\* soc_label_clean = soc_label[~np.isnan(soc_label)] / 100.0
\* soc_est_clean = soc_estimates[:len(soc_label_clean)]
\* soc_label_clean - soc_est_clean: the m-th label that is not NaN meets
\* the m-th estimate.  A pair is <<position of the label, position of
\* the estimate>>.
Compared(label) ==
    {<<k, Cardinality({v \in NotNan(label) : v <= k})>> : k \in NotNan(label)}

\* the metrics dict: its keys and, for the SOC errors, what is compared
Metrics(soc_label, use) ==
    LET supplied == soc_label # <<>> /\ use
        scored   == supplied /\ NotNan(soc_label[1]) # {}
    IN  [keys  |-> {"voltage_rmse", "voltage_mae", "final_soc", "initial_soc"}
                   \cup (IF scored THEN {"soc_rmse", "soc_mae"} ELSE {}),
         pairs |-> IF scored THEN Compared(soc_label[1]) ELSE {}]

\* a session that returned, about to assemble its result
MetricsInit ==
    /\ FusionIdle
    /\ LoaderIdle
    /\ pseudo = <<>>
    /\ ApiIdle
    /\ soc_column \in {<<>>} \cup {<<c>> : c \in Columns}
    /\ use_label_soc \in BOOLEAN
    /\ metrics = <<>>

ComputeMetrics ==
    /\ metrics = <<>>
    /\ metrics' = Metrics(SocLabel(soc_column, use_label_soc), use_label_soc)
    /\ UNCHANGED <<fusion, loaderVars, pseudo, api, soc_column, use_label_soc>>

MetricsNext == ComputeMetrics

MetricsSpec == MetricsInit /\ [][MetricsNext]_vars

\* ------------------------------------------------------- the web service
\* /health and /soc/estimate around the estimator singleton.
MaxRequests == 3               \* requests followed
SeqLenDefault == 64            \* SOCConfig.seq_len
\* what is at SOC_MODEL_PATH: a state dict that loads, nothing, or a file
\* torch.load / load_state_dict raises on
ModelFiles == {"loads", "missing", "corrupt"}
\* what loader.load_data does for the request: raises (<<>>), or returns a
\* table of so many rows (none left after dropna, a table shorter than
\* seq_len, a longer one)
TableChoices == {<<>>, <<0>>, <<2>>, <<SeqLenDefault + 1>>}

\* SOCEstimator.__init__: "if model_path and os.path.exists(model_path)"
\* loads the state dict, and an exception of the load leaves __init__;
\* else prints "[WARNING] Model file not found, using untrained model" and
\* goes on with the randomly initialised GRUVoltageModel.
Construct(file) ==
    IF file = "loads" THEN "trained"
    ELSE IF file = "missing" THEN "untrained"
    ELSE "raise"

\* get_estimator: construct when _estimator is None; "except Exception"
\* leaves _estimator = None; return _estimator
GetEstimator(current, file) ==
    IF current # "None" THEN current
    ELSE IF Construct(file) = "raise" THEN "None"
    ELSE Construct(file)

\* how estimator.estimate_soc ends on a table of n rows: a table longer
\* than seq_len reaches the first flush and "pred[0, 0]" (IndexError)
SessionEnds(n) == IF n > SeqLenDefault THEN "IndexError" ELSE "returned"

\* one response: what was asked, the table load_data gave (if it was
\* called and returned), the status and detail sent, the availability
\* reported, whether estimate_soc was entered and whether it came to
\* filter a sample (a model call and a predict)
Response(endpoint, table, status, detail, available, ran, filtered) ==
    [endpoint |-> endpoint, table |-> table, status |-> status,
     detail |-> detail, available |-> available, ran |-> ran,
     filtered |-> filtered]

\* "except Exception as e: raise HTTPException(status_code=500,
\* detail=f"SOC estimation failed: {str(e)}")": whatever was raised inside
\* the try, an HTTPException included, leaves as a 500.
Caught(table, e, ran, filtered) ==
    Response("estimate", table, 500, "SOC estimation failed: " \o e,
             FALSE, ran, filtered)

AppInit ==
    /\ FusionIdle
    /\ LoaderIdle
    /\ pseudo = <<>>
    /\ ReportIdle
    /\ model_file \in ModelFiles
    /\ estimator = "None"
    /\ responses = <<>>

\* GET /health
Health ==
    /\ Len(responses) < MaxRequests
    /\ estimator' = GetEstimator(estimator, model_file)
    /\ responses' = Append(responses,
                           Response("health", <<>>, 200, "healthy",
                                    estimator' # "None", FALSE, FALSE))
    /\ UNCHANGED <<fusion, loaderVars, pseudo, report, model_file>>

\* POST /soc/estimate.  The texts are str(e) of what was raised: the
\* ValueError of load_data, the HTTPException of the zero-row test, the
\* AttributeError of None.estimate_soc, the IndexError of "pred[0, 0]".
Estimate ==
    /\ Len(responses) < MaxRequests
    /\ estimator' = GetEstimator(estimator, model_file)
    /\ \E table \in TableChoices :
         responses' = Append(responses,
            IF table = <<>>
            THEN Caught(table, "No data returned from InfluxDB", FALSE, FALSE)
            ELSE IF table[1] = 0
            THEN Caught(table, "404: No data found", FALSE, FALSE)
            ELSE IF estimator' = "None"
            THEN Caught(table, "'NoneType' object has no attribute 'estimate_soc'",
                        FALSE, FALSE)
            ELSE IF SessionEnds(table[1]) = "returned"
            THEN Response("estimate", table, 200, "", FALSE, TRUE, FALSE)
            ELSE Caught(table, "too many indices for array", TRUE, TRUE))
    /\ UNCHANGED <<fusion, loaderVars, pseudo, report, model_file>>

AppNext ==
    \/ Health
    \/ Estimate

AppSpec == AppInit /\ [][AppNext]_vars

\* ---------------------------------------------------------- derived notions
InUnit(v) == 0 <= v /\ v <= One
Stopped == pc \in {"done", "failed"}
Last(q) == q[Len(q)]

\* The fusion loop's phase as the spec names it: the buffer not yet full,
\* the steady state, the end of the stream (or an exception).
Phase ==
    IF pc = "done" THEN "Done"
    ELSE IF pc = "failed" THEN "Failed"
    ELSE IF Len(window_buffer) < seq_len THEN "WarmingUp"
    ELSE "Filtering"

\* the sample indexes of the calls of one kind, in call order
RECURSIVE IdxOf(_, _)
IdxOf(log, op) ==
    IF log = <<>> THEN <<>>
    ELSE IF log[1].op = op THEN <<log[1].idx>> \o IdxOf(Tail(log), op)
    ELSE IdxOf(Tail(log), op)

\* ------------------------------------------------------------------ claims

\* C1: every element of the SOC estimate sequence the loop returns lies in
\* [0,1]: the seeded first element, the warm-up placeholders and every
\* post-update estimate.
C1_ReturnedSocInUnit ==
    pc = "done" => \A k \in 1..Len(soc_estimates) : InUnit(soc_estimates[k])

\* C2: after every predict and after every update the filter mean (SOC) lies
\* in [0,1], whenever the session was seeded with an SOC in [0,1].
C2_MeanInUnitAfterPredictUpdate ==
    (calls # <<>> /\ InUnit(InitialSoc(soc_label0))) => InUnit(x)

\* the index of the first sample of the batch handed over by a model call
FirstOfBatch(mc) == mc.at - Len(mc.windows) + 1

\* C3: in the batched loop no window handed to the observation model in a
\* batch holds an SOC value written by an update of that same batch: the
\* SOC slot of every sample of the batch still has the value it had before
\* the batch started.
C3_BatchWindowsPreBatchSoc ==
    impl = "batched" =>
        \A k \in 1..Len(model_calls) :
            \A w \in 1..Len(model_calls[k].windows) :
                \A f \in 1..Len(model_calls[k].windows[w]) :
                    model_calls[k].windows[w][f].soc_idx >= FirstOfBatch(model_calls[k])
                        => model_calls[k].windows[w][f].soc_src = "init"

\* a batch of two windows, the second holding the SOC slot of the first
C3_Witness ==
    /\ impl = "batched"
    /\ Len(model_calls) = 1
    /\ Len(model_calls[1].windows) = 2
    /\ \E f \in 1..Len(model_calls[1].windows[2]) :
         model_calls[1].windows[2][f].soc_idx = FirstOfBatch(model_calls[1])

\* the sample indexes the loop has to filter: seq_len .. N-1, in order
ReadyIdx == [k \in 1..(IF N > seq_len THEN N - seq_len ELSE 0) |-> seq_len + k - 1]

\* C4: in the batched loop the predict/update pairs of a batch run in
\* submission order on the queued samples, and when the loop has stopped
\* every sample index from seq_len to N-1 has been filtered exactly once, in
\* increasing order.
C4_BatchFilteredInOrder ==
    (impl = "batched" /\ Stopped) =>
        /\ IdxOf(calls, "predict") = ReadyIdx
        /\ IdxOf(calls, "update") = ReadyIdx

\* C5: predict and update strictly alternate, starting with predict, each
\* update following the predict of the same sample; when the loop has
\* stopped no predict is left without its update.
C5_PredictUpdateAlternate ==
    /\ \A k \in 1..Len(calls) :
         /\ calls[k].op = (IF k % 2 = 1 THEN "predict" ELSE "update")
         /\ (k % 2 = 0 => calls[k].idx = calls[k - 1].idx)
    /\ (Stopped => Len(calls) % 2 = 0)

\* C6: when the loop is Done the SOC estimate sequence has exactly N
\* elements, and the predicted-voltage and actual-voltage sequences always
\* have the same length.
C6_LengthsAtDone ==
    /\ (pc = "done" => Len(soc_estimates) = N)
    /\ Len(voltage_predictions) = Len(voltage_actual)

C6_Witness ==
    /\ pc = "done"
    /\ N > seq_len + 1
    /\ seq_len > 1
    /\ Len(IdxOf(calls, "update")) >= 2

\* C7 as stated: for an input shorter than seq_len every SOC output equals
\* the initial SOC and the output has N - 1 elements.
C7_Original ==
    (pc = "done" /\ N < seq_len) =>
        /\ \A k \in 1..Len(soc_estimates) : soc_estimates[k] = InitialSoc(soc_label0)
        /\ Len(soc_estimates) = N - 1

\* C7 amended: for an input shorter than seq_len every SOC output equals the
\* initial SOC, the SOC output has N elements and each voltage array N - 1.
C7_WarmupOnlyOutputs ==
    (pc = "done" /\ N < seq_len) =>
        /\ \A k \in 1..Len(soc_estimates) : soc_estimates[k] = InitialSoc(soc_label0)
        /\ Len(soc_estimates) = N
        /\ Len(voltage_predictions) = N - 1
        /\ Len(voltage_actual) = N - 1

\* the fixture: seq_len = 4, 3 samples, SOC output [initial, initial, initial]
C7_Witness ==
    /\ pc = "done"
    /\ seq_len = 4
    /\ N = 3
    /\ soc_estimates = <<InitialSoc(soc_label0), InitialSoc(soc_label0),
                         InitialSoc(soc_label0)>>

\* C8: a sample taken while the buffer holds fewer than seq_len vectors calls
\* neither predict nor update nor the observation model, leaves the filter
\* mean and covariance unchanged, emits the previous SOC estimate again and
\* reports one voltage as both the actual and the predicted voltage.
InWarmup == pc = "loop" /\ i < N /\ Len(window_buffer) + 1 < seq_len
C8_WarmupFrame ==
    [][InWarmup =>
        /\ x' = x
        /\ P' = P
        /\ calls' = calls
        /\ model_calls' = model_calls
        /\ soc_estimates' = Append(soc_estimates, Last(soc_estimates))
        /\ Len(voltage_actual') = Len(voltage_actual) + 1
        /\ Len(voltage_predictions') = Len(voltage_predictions) + 1
        /\ Last(voltage_predictions') = Last(voltage_actual')]_vars

C8_Witness ==
    /\ pc = "loop"
    /\ Len(window_buffer) >= 2
    /\ Len(window_buffer) < seq_len
    /\ Len(soc_estimates) = Len(window_buffer) + 1
    /\ voltage_predictions = voltage_actual
    /\ voltage_actual[1] # voltage_actual[2]
    /\ calls = <<>>

\* C9: no filtering happens while the loop is WarmingUp (so it never returns
\* there once it filtered); the sample whose push fills the buffer is the
\* first one filtered; the loop ends in Done; an input with N <= seq_len
\* samples ends in Done without any filtering.
C9_PhaseProtocol ==
    /\ (Phase = "WarmingUp" => calls = <<>> /\ model_calls = <<>>)
    /\ (calls # <<>> => calls[1].idx = seq_len)
    /\ (Stopped => pc = "done")
    /\ ((pc = "done" /\ N > seq_len) => IdxOf(calls, "update") = ReadyIdx)
    /\ ((pc = "done" /\ N <= seq_len) => calls = <<>>)

\* the number of windows handed to the observation model so far
RECURSIVE WindowsHandled(_)
WindowsHandled(mc) ==
    IF mc = <<>> THEN 0 ELSE Len(mc[1].windows) + WindowsHandled(Tail(mc))

\* C10: the observation model is invoked exactly when batch_size windows
\* are queued or the sample is the last one; the queue never holds more
\* than batch_size windows; it is emptied by every invocation and empty
\* when the loop has stopped, every queued window having been filtered.
C10_QueueDrained ==
    impl = "batched" =>
        /\ Len(batch_buffer) <= batch_size
        /\ \A k \in 1..Len(model_calls) :
             \/ Len(model_calls[k].windows) = batch_size
             \/ model_calls[k].at = N - 1
        /\ (pc = "loop" => (batch_buffer = <<>> \/ Len(batch_buffer) < batch_size))
        /\ (Stopped =>
              /\ batch_buffer = <<>>
              /\ Len(IdxOf(calls, "update")) = WindowsHandled(model_calls)
              /\ WindowsHandled(model_calls) = Len(ReadyIdx))

\* ---------------------------------------------------------------- C11
\* C11: a session does not depend on the sessions before it on the same
\* estimator: whenever a session enters its loop, before any filter call
\* of its own, the filter holds the seeded mean and the initial covariance
\* 0.1.
C11_SessionStartsFresh ==
    (pc = "loop" /\ calls = <<>>) => (x = InitialSoc(soc_label0) /\ P = P0)

\* ---------------------------------------------------------------- C12
\* C12: with Q >= 0 and R > 0, starting from the initial covariance 0.1,
\* the covariance the filter holds after every update is positive
\* semi-definite (P >= 0 for the one-dimensional filter).
C12_CovariancePsdAfterUpdate ==
    (R > 0 /\ calls # <<>> /\ Last(calls).op = "update") => P >= 0

\* ---------------------------------------------------------------- C13
\* every update so far had a zero residual (z = z_pred)
PerfectObservation ==
    \A k \in 1..Len(calls) :
        calls[k].op = "update" => calls[k].z = calls[k].z_pred
\* C13: with Q = R = 0 and a perfect observation model every filtered SOC
\* is the coulomb-counting step of the estimate before it:
\* soc_k = clamp(soc_(k-1) - eff * current_k * dt / (capacity * 3600), 0, 1).
C13_FollowsCoulombCounting ==
    (Q = 0 /\ R = 0 /\ PerfectObservation
        /\ calls # <<>> /\ Last(calls).op = "update")
    => x = ProcessModel(soc_estimates[Len(soc_estimates) - 1],
                        calls[Len(calls) - 1].u, dt)

\* ---------------------------------------------------------------- C14
\* the table of the scenario: 10 A, dt = 1 s, efficiency 1.0
ConstantDischarge == pseudo.cur = 10 /\ pseudo.dt = 1 /\ pseudo.eff = 1000
\* C14: coulomb counting a constant 10 A discharge (72 Ah, dt = 1 s,
\* efficiency 1.0) for 3600 steps from SOC 1.0 ends at 0.861 within 1e-3.
C14_ConstantDischarge ==
    (ConstantDischarge /\ pseudo.i = 3600)
    => Abs(pseudo.soc - 861 * (ChargeUnits \div 1000)) <= ChargeUnits \div 1000
\* the 3600th step of the scenario has been taken: 1 - 36000 / 259200
C14_Witness ==
    /\ ConstantDischarge
    /\ pseudo.i = 3600
    /\ pseudo.soc = ChargeUnits - 3600 * 10 * 1000

\* ---------------------------------------------------------------- C15
LoadFailed == loaded.kind \in {"ValueError", "Exception"}
\* the entry the latest call found was older than cache_ttl allows
Expired == loaded.found # <<>> /\ loaded.at - loaded.found[1].time >= cache_ttl
\* the entry of the latest call's key is a table queried by that call
Overwritten ==
    /\ loaded.key \in DOMAIN cache
    /\ cache[loaded.key].time = loaded.at
    /\ heap[cache[loaded.key].ref].request = loaded.request
    /\ heap[cache[loaded.key].ref].at = loaded.at
    /\ (loaded.found # <<>> => cache[loaded.key].ref # loaded.found[1].ref)
\* C15 as stated: a hit needs an entry younger than cache_ttl; an absent or
\* expired entry, or disabled caching, is a miss, and a successful miss
\* leaves the entry overwritten with the new table and a new time.
C15_Original ==
    loaded.n > 0 =>
        /\ loaded.kind = "hit" => (loaded.found # <<>> /\ ~Expired)
        /\ (loaded.found = <<>> \/ Expired \/ ~use_cache) => loaded.kind # "hit"
        /\ loaded.kind = "miss" => Overwritten
\* C15: load_data returns a cached table only when caching is enabled, an
\* entry for the key exists and now - createdAt < cache_ttl, and the table
\* is that entry's; otherwise the source is queried and, on success with
\* caching enabled, the entry holds the new table and the new time; with
\* caching disabled nothing is ever stored; a failed query leaves the
\* cache as it was.
C15_HitOnlyWhenFresh ==
    loaded.n > 0 =>
        /\ loaded.kind = "hit" =>
              /\ use_cache /\ loaded.found # <<>> /\ ~Expired
              /\ heap[loaded.ref].request = heap[loaded.found[1].ref].request
              /\ heap[loaded.ref].at = heap[loaded.found[1].ref].at
              /\ cache[loaded.key] = loaded.found[1]
        /\ (loaded.found = <<>> \/ Expired) => loaded.kind # "hit"
        /\ (loaded.kind = "miss" /\ use_cache) => Overwritten
        /\ ~use_cache => cache = <<>>
        /\ (LoadFailed /\ use_cache) =>
              IF loaded.found = <<>> THEN loaded.key \notin DOMAIN cache
              ELSE cache[loaded.key] = loaded.found[1]
\* an expired entry was found, the source queried, the entry overwritten
C15_Witness ==
    /\ loaded.n > 0
    /\ loaded.kind = "miss"
    /\ Expired
    /\ Overwritten

\* ---------------------------------------------------------------- C16
\* C16: no table a caller holds is the cached snapshot, so no write of a
\* caller reaches a snapshot, and every hit returns its table as stored.
C16_ReturnedTablesIndependent ==
    /\ \A k \in DOMAIN cache :
          ~heap[cache[k].ref].held /\ ~heap[cache[k].ref].mutated
    /\ (loaded.n > 0 /\ loaded.kind = "hit") => loaded.clean
\* the table returned by the miss that populated the entry had been written
\* to before the hit, and the hit still returned the table as stored
C16_Witness ==
    /\ loaded.n > 0
    /\ loaded.kind = "hit"
    /\ loaded.clean
    /\ \E r \in loaded.written :
          /\ r + 1 = loaded.found[1].ref
          /\ CacheKey(heap[r].request) = loaded.key

\* ---------------------------------------------------------------- C17
\* C17: a hit returns a table that was stored for the identical tuple
\* (device, start, stop, downsample).
C17_HitReturnsOwnTuple ==
    (loaded.n > 0 /\ loaded.kind = "hit")
    => heap[loaded.ref].request = loaded.request

\* ---------------------------------------------------------------- C18
\* C18: with two requests in service the steps of one session do not
\* interleave with the other's on the filter: when a session comes to its
\* first predict, the filter holds the mean that session seeded and the
\* covariance it started with.
C18_ReadsOwnWrites ==
    (pc = "flush" /\ calls = <<>> /\ j < Len(batch_buffer))
    => (x = InitialSoc(soc_label0) /\ P = P0)

\* ---------------------------------------------------------------- C19
\* C19: whenever the loop has stopped, at the end of the stream or on an
\* error, every predict stored into the filter is followed by the stored
\* update of the same sample.
C19_NoPartialStepAtStop ==
    Stopped =>
        \A k \in 1..Len(calls) :
            calls[k].op = "predict" =>
                /\ k < Len(calls)
                /\ calls[k + 1].op = "update"
                /\ calls[k + 1].idx = calls[k].idx

\* ---------------------------------------------------------------- C20
\* C20: sigma-point generation factorises P; if that raises it factorises
\* P + 1e-8*I, once; if that raises too, the error ends the session as
\* LinAlgError: no third factorisation, no sigma points, no filter call
\* recorded for the failing step.
C20_RetryOnceThenFatal ==
    /\ Len(chol) <= 2
    /\ chol # <<>> => chol[1].reg = 0
    /\ Len(chol) = 2 => (chol[1].out = "raise" /\ chol[2].reg = 1)
    /\ (chol # <<>> /\ Last(chol).out = "raise")
         => (Len(chol) = 2 /\ pc = "failed" /\ error = "LinAlgError")
    /\ (pc = "failed" /\ error = "LinAlgError")
         => (Len(chol) = 2 /\ Last(chol).out = "raise"
             /\ (calls # <<>> => Last(calls).op = "update"))
\* both factorisations raised and the session ended on LinAlgError
C20_Witness ==
    /\ chol = <<Attempt(0, "raise"), Attempt(1, "raise")>>
    /\ pc = "failed"
    /\ error = "LinAlgError"

\* ---------------------------------------------------------------- C21
\* the update about to run factorises P and finds Pzz = R + Pxz singular
InnovationSingular ==
    LET sp == compute_sigma_points(x, P)
    IN  /\ pc = "observe"
        /\ sp.ok
        /\ Len(sp.attempts) = 1
        /\ Singular(R + WeightedCov(sp.pts, sp.L, sp.cov))
\* C21: an update that finds the innovation covariance singular fails with
\* a fatal error: the filter keeps the predicted state, no SOC estimate is
\* appended for the step and the session ends without a result.
C21_SingularIsFatal ==
    [][InnovationSingular =>
          /\ pc' = "failed"
          /\ error' = "LinAlgError"
          /\ soc_estimates' = soc_estimates
          /\ calls' = calls
          /\ x' = x
          /\ P' = P]_vars
\* the session ended in an update whose factorisation succeeded
C21_Witness ==
    /\ pc = "failed"
    /\ error = "LinAlgError"
    /\ calls # <<>>
    /\ Last(calls).op = "predict"
    /\ Last(chol).out = "ok"
    /\ sigma.P + R = 0


\* the last _compute_sigma_points call returned sigma points
Generated == sigma # <<>> /\ sigma.ok

\* L is the lower Cholesky factor of (n+lambda)*p: L >= 0 and L*L equal to
\* (n+lambda)*p up to the rounding of the fine unit
IsFactor(L, p) ==
    IF p <= 2 * One
    THEN /\ L >= 0
         /\ L * L <= p * Fine * Fine
         /\ p * Fine * Fine < (L + 1) * (L + 1)
    ELSE /\ L % Fine = 0
         /\ (L \div Fine) * (L \div Fine) <= p
         /\ p < (L \div Fine + 1) * (L \div Fine + 1)

\* the 2n+1 points are x and the pairs x + L, x - L, and their Wm-weighted
\* sum is x
SymmetricAboutMean ==
    /\ Len(sigma.pts) = 2 * DimX + 1
    /\ sigma.pts[1] = Fine * sigma.x
    /\ sigma.pts[2] = Fine * sigma.x + sigma.L
    /\ sigma.pts[3] = Fine * sigma.x - sigma.L
    /\ sigma.pts[2] - sigma.pts[1] = sigma.pts[1] - sigma.pts[3]
    /\ WeightedMean(sigma.pts) = sigma.x

\* C23 as stated: every generated set is x, x + L, x - L with L the
\* Cholesky factor of (n+lambda)*P, symmetric about x and with Wm-weighted
\* sum x.
C23_Original ==
    Generated => SymmetricAboutMean /\ IsFactor(sigma.L, sigma.P)

\* C23, amended: every generated set is x, x + L, x - L, symmetric about x
\* and with Wm-weighted sum x, where L is the Cholesky factor of (n+lambda)*P
\* when P is positive definite and otherwise the factor of
\* (n+lambda)*(P + 1e-8*I), a positive step of at most sqrt((n+lambda)*1e-8).
C23_SigmaPoints ==
    Generated =>
        /\ SymmetricAboutMean
        /\ IF sigma.P > 0 THEN IsFactor(sigma.L, sigma.P)
           ELSE sigma.P + Eps >= 0 /\ sigma.L > 0 /\ sigma.L * sigma.L <= Eps

\* sigma points were generated both from a positive definite covariance and,
\* here, from one that had to be regularised
C23_Witness ==
    /\ Generated /\ sigma.P <= 0
    /\ Last(chol).reg = 1 /\ Last(chol).out = "ok"
    /\ sigma.pts[2] > sigma.pts[1] /\ sigma.pts[1] > sigma.pts[3]


\* w holds the feature vectors of the seq_len samples up to sample k, oldest
\* first
WindowUpTo(w, k) ==
    /\ Len(w) = seq_len
    /\ \A t \in 1..seq_len : w[t].idx = k - seq_len + t /\ w[t].soc_idx = w[t].idx - 1

\* the sample whose push came last
LastPushed == IF pc = "loop" THEN i - 1 ELSE i

\* C24: every window handed to the observation model holds exactly seq_len
\* feature vectors, those of the seq_len samples pushed last when it was
\* taken, oldest first; the buffer never holds more than seq_len vectors
\* once a push is complete; and a window waiting in a batch still is the
\* window of its own sample after later pushes and evictions.
C24_WindowIsLastL ==
    /\ Len(window_buffer) <= seq_len
    /\ \A m \in 1..Len(model_calls) :
         LET c == model_calls[m]
         IN  \A k \in 1..Len(c.windows) :
               WindowUpTo(c.windows[k], c.at - Len(c.windows) + k)
    /\ \A k \in 1..Len(batch_buffer) :
         WindowUpTo(batch_buffer[k], LastPushed - Len(batch_buffer) + k)

\* a batch of two windows went to the model; the first was queued before
\* the push that evicted sample 1 from the buffer
C24_Witness ==
    /\ model_calls # <<>>
    /\ Len(Last(model_calls).windows) = 2
    /\ seq_len >= 2
    /\ Last(model_calls).windows[1][1].idx = 1
    /\ window_buffer[1].idx = 2
    /\ Last(model_calls).windows[2] = window_buffer


\* the step is a load_data call whose query returned nothing or raised
QueryFailed == loaded'.n = loaded.n + 1 /\ loaded'.kind \in {"ValueError", "Exception"}

\* C25: a load_data call whose query returns an empty result or fails
\* raises to its caller: it has run the query once, returns no table, and
\* leaves the cache and the tables it refers to exactly as they were.
C25_FailureLeavesCache ==
    [][QueryFailed =>
         /\ loaded'.queries = 1
         /\ loaded'.ref = 0
         /\ cache' = cache
         /\ heap' = heap]_vars

\* a query failed while the cache held an expired entry for the same
\* request, and the entry is still there
C25_Witness ==
    /\ LoadFailed
    /\ loaded.queries = 1
    /\ loaded.found # <<>>
    /\ loaded.key \in DOMAIN cache
    /\ cache[loaded.key] = loaded.found[1]


\* sample k is the last of the batch it is queued in
LastOfBatch(k) == (k - seq_len + 1) % batch_size = 0 \/ k = N - 1

\* the feature vectors of sample k that reached the observation model
FedFeatures(k) ==
    UNION {UNION {{c.windows[w][t] : t \in {t \in 1..Len(c.windows[w]) :
                                              c.windows[w][t].idx = k}} :
                  w \in 1..Len(c.windows)} :
           c \in {model_calls[m] : m \in 1..Len(model_calls)}}

\* C26: when the batched loop has stopped, the feature vector of the sample
\* after each filtered sample k < N-1 has gone to the model, and it embeds
\* the estimate of sample k exactly when k was the last of its batch.
C26_EstimateFedBack ==
    (impl = "batched" /\ Stopped) =>
        \A n \in 1..Len(ReadyIdx) :
            LET k == ReadyIdx[n]
            IN  k < N - 1 =>
                  /\ FedFeatures(k + 1) # {}
                  /\ \A f \in FedFeatures(k + 1) :
                        f.soc_src = "est" <=> LastOfBatch(k)


\* the table has been run a second time, and that run has stopped too
BothStopped == session = 2 /\ first # <<>> /\ "impl" \in DOMAIN first /\ Stopped

\* C27: after run_ukf_inference has returned, estimate_soc with
\* batch_size 1 on the same table, model, noise settings and initial SOC
\* 1.0 makes the same predict and update calls with the same arguments and
\* returns the same SOC estimates.
C27_SameAsSequential ==
    (BothStopped /\ first.impl = "sequential" /\ first.pc = "done"
        /\ batch_size = 1 /\ soc_label0 = <<>>) =>
        /\ pc = "done"
        /\ calls = first.calls
        /\ soc_estimates = first.soc_estimates

\* C28: the observation model answering for a sample regardless of the
\* SOC feature, two estimate_soc runs on the same table that differ in
\* batch_size only make the same predict and update calls in the same
\* order, hold the same SOC, predicted-voltage and actual-voltage
\* sequences and end the same way.
C28_BatchSizeIrrelevant ==
    (BothStopped /\ first.impl = "batched") =>
        /\ batch_size # first.batch_size
        /\ calls = first.calls
        /\ soc_estimates = first.soc_estimates
        /\ voltage_predictions = first.voltage_predictions
        /\ voltage_actual = first.voltage_actual
        /\ pc = first.pc
        /\ error = first.error

\* two runs with batch sizes 1 and 2 on a table with two samples to
\* filter: each queued and flushed as its batch size says, each began to
\* filter
C28_Witness ==
    /\ BothStopped /\ first.impl = "batched"
    /\ first.batch_size = 1 /\ batch_size = 2
    /\ N > seq_len + 1
    /\ calls # <<>> /\ first.calls = calls
    /\ Len(Last(model_calls).windows) = 2


\* the labels estimate_soc was given
Supplied == SocLabel(soc_column, use_label_soc)

\* C29: soc_rmse and soc_mae are among the metrics only if labels were
\* supplied, and then every label that is not NaN is compared with the
\* estimate of its own sample, whatever NaN labels come before or between.
C29_LabelMeetsOwnEstimate ==
    (metrics # <<>> /\ "soc_rmse" \in metrics.keys) =>
        /\ "soc_mae" \in metrics.keys
        /\ Supplied # <<>>
        /\ metrics.pairs = {<<k, k>> : k \in NotNan(Supplied[1])}


\* the responses sent so far
Sent == {responses[n] : n \in 1..Len(responses)}

\* C22: with the model file missing or failing to load the estimator
\* stays unavailable: _estimator is None, every /health answer reports
\* soc_estimator_available = false, and no request comes to a fusion-loop
\* step.
C22_UnavailableIsReported ==
    model_file # "loads" =>
        /\ estimator = "None"
        /\ \A r \in Sent :
             /\ r.endpoint = "health" => ~r.available
             /\ ~r.filtered

\* C30: a /soc/estimate request whose table has no rows is answered with
\* status 404 and detail "No data found", and estimate_soc is not entered.
C30_EmptyTableIs404 ==
    \A r \in Sent :
        (r.endpoint = "estimate" /\ r.table = <<0>>) =>
            /\ r.status = 404
            /\ r.detail = "No data found"
            /\ ~r.ran

============================================================================
